---------------------------- MODULE Spec2Model ----------------------------
(***************************************************************************)
(* Model of the task manager core: the Task entity (core/task/models.py),  *)
(* the persistence mapping and the store (core/task/services.py) and the   *)
(* manager (core/task/manager.py), over a document collection keyed by     *)
(* _id.                                                                    *)
(*                                                                         *)
(* Python values are encoded as follows.                                   *)
(*   - an optional value is a sequence of length at most one: None is <<>> *)
(*     and the value v is <<v>>;                                           *)
(*   - a str is a sequence of characters, so that str.strip() is computed; *)
(*   - a datetime is a natural number;                                     *)
(*   - an enum member is its name ("HIGH"), its value the string that is   *)
(*     stored ("high");                                                    *)
(*   - a stored document is a record whose domain is the set of keys it    *)
(*     holds, so that dict.get(key, default) is computed.                  *)
(***************************************************************************)
EXTENDS Integers, Sequences, FiniteSets, TLC

VARIABLES
    store,      \* the collection: the set of stored documents
    nextId,     \* the next identifier uuid4() hands out
    ops,        \* the number of manager operations started so far
    upd,        \* the update_task call in flight between its two store calls
    deleted,    \* the ids delete_one has removed so far
    born,       \* <<id, created_at>> of every document inserted so far
    last,       \* the manager operation that took the last step, and how it
                \* ended ("continue": an update_task about to persist)
    held,       \* the Task object a caller of models.py holds, if any
    was,        \* that Task object before the last operation on it
    db          \* the state of db/base.py: the cache of get_client, its
                \* hit and miss counters, and every MongoClient created

vars == <<store, nextId, ops, upd, deleted, born, last, held, was, db>>

---------------------------------------------------------------------------
(* Bounds of the model.                                                    *)

MaxTasks == 2       \* identifiers uuid4() can hand out
MaxOps == 3         \* manager operations in one behaviour
MaxTime == 2        \* values datetime.utcnow() can return
MaxDate == 1        \* due dates a caller can supply
MaxCalls == 5       \* calls of get_client and close_client in one behaviour

---------------------------------------------------------------------------
(* Optional values.                                                        *)

None == <<>>

Some(v) == <<v>>

Get(opt) == opt[1]

---------------------------------------------------------------------------
(* Text.                                                                   *)

Whitespace == {" "}

RECURSIVE LStrip(_)
LStrip(s) ==
    IF s # <<>> /\ Head(s) \in Whitespace THEN LStrip(Tail(s)) ELSE s

RECURSIVE RStrip(_)
RStrip(s) ==
    IF s # <<>> /\ s[Len(s)] \in Whitespace
    THEN RStrip(SubSeq(s, 1, Len(s) - 1))
    ELSE s

\* str.strip()
Strip(s) == RStrip(LStrip(s))

\* (value or "")
OrEmpty(opt) == IF opt = None THEN <<>> ELSE Get(opt)

---------------------------------------------------------------------------
(* Enumerations (models.py).                                               *)

PriorityLevel == {"LOW", "MEDIUM", "HIGH"}

Status == {"PENDING", "IN_PROGRESS", "COMPLETED"}

\* member.value
EnumValue(member) ==
    CASE member = "LOW" -> "low"
      [] member = "MEDIUM" -> "medium"
      [] member = "HIGH" -> "high"
      [] member = "PENDING" -> "pending"
      [] member = "IN_PROGRESS" -> "in_progress"
      [] member = "COMPLETED" -> "completed"

\* PriorityLevel(value) succeeds
IsPriorityValue(value) == \E m \in PriorityLevel : EnumValue(m) = value

\* Status(value) succeeds
IsStatusValue(value) == \E m \in Status : EnumValue(m) = value

\* PriorityLevel(value)
PriorityOf(value) == CHOOSE m \in PriorityLevel : EnumValue(m) = value

\* Status(value)
StatusOf(value) == CHOOSE m \in Status : EnumValue(m) = value

---------------------------------------------------------------------------
(* The Task entity (models.py).                                            *)

\* the title setter testing the value before it is stripped: it rejects the
\* empty and the absent title only
TitleRejectedIfEmpty(value) == OrEmpty(value) = <<>>

\* the title setter raises TaskValidationError
TitleRejected(value) == Strip(OrEmpty(value)) = <<>>

\* task.title = value, when it does not raise
SetTitle(task, value) == [task EXCEPT !.title = Strip(OrEmpty(value))]

\* task.description = value
SetDescription(task, value) ==
    [task EXCEPT !.description = Strip(OrEmpty(value))]

\* task.due_date = value
SetDueDate(task, value) == [task EXCEPT !.due_date = value]

\* task.priority_level = value
SetPriorityLevel(task, value) == [task EXCEPT !.priority_level = value]

\* task.status = value
SetStatus(task, value) == [task EXCEPT !.status = value]

\* task.mark_completed()
MarkCompleted(t) == SetStatus(t, "COMPLETED")

\* start() without its guard
StartNeverRejected(t) == FALSE

\* task.start() raises TaskValidationError
StartRejected(t) == t.status = "COMPLETED"

\* task.start(), when it does not raise
Start(t) == SetStatus(t, "IN_PROGRESS")

\* Task(...), when the title is accepted.  created_at and id are optional:
\* now and uuid are what datetime.utcnow() and uuid4() return.
NewTask(title, description, due_date, priority_level, status, created_at, id, now, uuid) ==
    LET blank == [id |-> IF id = None THEN uuid ELSE Get(id),
                  title |-> <<>>,
                  description |-> <<>>,
                  due_date |-> None,
                  priority_level |-> "MEDIUM",
                  status |-> "PENDING",
                  created_at |-> IF created_at = None THEN now
                                 ELSE Get(created_at)]
    IN  SetStatus(
          SetPriorityLevel(
            SetDueDate(
              SetDescription(SetTitle(blank, title), description),
              due_date),
            priority_level),
          status)

---------------------------------------------------------------------------
(* The persistence mapping (services.py).                                  *)

\* TaskService._serialize(t) raises AttributeError: priority_level or status
\* holds a value that is no enum member, and a plain str has no .value
SerializeRejected(t) ==
    t.priority_level \notin PriorityLevel \/ t.status \notin Status

\* _serialize without the due date: the document holds None for it
SerializeWithoutDueDate(task) ==
    [_id |-> task.id,
     title |-> task.title,
     description |-> task.description,
     due_date |-> None,
     priority_level |-> EnumValue(task.priority_level),
     status |-> EnumValue(task.status),
     created_at |-> task.created_at]

\* TaskService._serialize
Serialize(task) ==
    [_id |-> task.id,
     title |-> task.title,
     description |-> task.description,
     due_date |-> task.due_date,
     priority_level |-> EnumValue(task.priority_level),
     status |-> EnumValue(task.status),
     created_at |-> task.created_at]

\* doc.get(key, default)
DocGet(doc, key, default) ==
    IF key \in DOMAIN doc THEN doc[key] ELSE default

\* How TaskService._deserialize(doc) ends: "ok", or the exception it raises.
DeserializeOutcome(doc) ==
    IF "title" \notin DOMAIN doc THEN "KeyError"
    ELSE IF ~IsPriorityValue(DocGet(doc, "priority_level", "medium"))
         THEN "ValueError"
    ELSE IF ~IsStatusValue(DocGet(doc, "status", "pending"))
         THEN "ValueError"
    ELSE IF TitleRejected(Some(doc.title)) THEN "TaskValidationError"
    ELSE "ok"

\* _deserialize without created_at=...: the Task is given the time of the read
DeserializeCreatedNow(doc, now) ==
    NewTask(Some(doc.title),
            Some(DocGet(doc, "description", <<>>)),
            DocGet(doc, "due_date", None),
            PriorityOf(DocGet(doc, "priority_level", "medium")),
            StatusOf(DocGet(doc, "status", "pending")),
            None,
            Some(doc._id),
            now, 0)

\* TaskService._deserialize(doc), when it does not raise
Deserialize(doc, now) ==
    NewTask(Some(doc.title),
            Some(DocGet(doc, "description", <<>>)),
            DocGet(doc, "due_date", None),
            PriorityOf(DocGet(doc, "priority_level", "medium")),
            StatusOf(DocGet(doc, "status", "pending")),
            Some(DocGet(doc, "created_at", now)),
            Some(doc._id),
            now, 0)

---------------------------------------------------------------------------
(* The collection: what the storage engine does on each call.              *)

Ids(s) == {d._id : d \in s}

\* collection.find_one({"_id": id})
FindOne(s, id) ==
    IF id \in Ids(s) THEN Some(CHOOSE d \in s : d._id = id) ELSE None

\* a document matches an equality filter
Matches(doc, query) ==
    \A k \in DOMAIN query : k \in DOMAIN doc /\ doc[k] = query[k]

\* the sort key of a document: a missing field sorts as null, before any date
SortKey(doc) == DocGet(doc, "created_at", 0)

\* find(query) without the sort: the documents in any order
UnsortedCursors(docs) ==
    LET n == Cardinality(docs)
    IN  {c \in [1..n -> docs] : \A i, j \in 1..n : i # j => c[i] # c[j]}

\* the orders in which collection.find(query).sort("created_at", 1) can
\* yield its documents: ascending, documents with equal keys in any order
SortedCursors(docs) ==
    LET n == Cardinality(docs)
    IN  {c \in [1..n -> docs] :
            /\ \A i, j \in 1..n : i # j => c[i] # c[j]
            /\ \A i, j \in 1..n : i < j => SortKey(c[i]) <= SortKey(c[j])}

\* collection.find(query).sort("created_at", 1)
Find(s, query) == SortedCursors({d \in s : Matches(d, query)})

\* the update document given without "$set": it replaces the stored document
SetFieldsReplace(doc, updates) ==
    [k \in {"_id"} \cup DOMAIN updates |->
        IF k = "_id" THEN doc._id ELSE updates[k]]

\* {"$set": updates} applied to a document
SetFields(doc, updates) ==
    [k \in DOMAIN doc \cup DOMAIN updates |->
        IF k \in DOMAIN updates THEN updates[k] ELSE doc[k]]

\* find_one_and_update with upsert=True: a missing document is created
FindOneAndUpdateUpsert(s, id, updates) ==
    IF id \in Ids(s)
    THEN {IF d._id = id
          THEN [k \in DOMAIN d \cup DOMAIN updates |->
                    IF k \in DOMAIN updates THEN updates[k] ELSE d[k]]
          ELSE d : d \in s}
    ELSE s \cup {[k \in {"_id"} \cup DOMAIN updates |->
                    IF k = "_id" THEN id ELSE updates[k]]}

\* the collection after find_one_and_update({"_id": id}, {"$set": updates})
FindOneAndUpdate(s, id, updates) ==
    {IF d._id = id THEN SetFields(d, updates) ELSE d : d \in s}

\* delete_one({}): the filter is empty, and some document is removed
DeleteOneUnfiltered(s, id) ==
    IF s = {} THEN s ELSE s \ {CHOOSE d \in s : \A e \in s : d._id >= e._id}

\* the collection after delete_one({"_id": id})
DeleteOne(s, id) == {d \in s : d._id # id}

---------------------------------------------------------------------------
(* How an operation ran: how it ended ("ok" or the exception that reached  *)
(* the caller), the Tasks it returned, the collection it left, the store   *)
(* calls it issued, whether one of them failed and, for insert_many, the   *)
(* positions of the documents whose insert failed.                         *)

Run(outcome, result, s, calls) ==
    [outcome |-> outcome, result |-> result, store |-> s, calls |-> calls,
     failed |-> FALSE, lost |-> {}]

\* a store call raised a PyMongoError: the storage engine reported a failure
EngineError(s, calls) ==
    [outcome |-> "PyMongoError", result |-> <<>>, store |-> s,
     calls |-> calls, failed |-> TRUE, lost |-> {}]

---------------------------------------------------------------------------
(* The store (services.py).  fail: the store call raises a PyMongoError.   *)

\* TaskService.get_task
ServiceGetTask(s, id, now, fail) ==
    LET doc == FindOne(s, id)
    IN  IF fail THEN EngineError(s, <<"find_one">>)
        ELSE IF doc = None THEN Run("ok", <<>>, s, <<"find_one">>)
        ELSE IF DeserializeOutcome(Get(doc)) # "ok"
             THEN Run(DeserializeOutcome(Get(doc)), <<>>, s, <<"find_one">>)
        ELSE Run("ok", <<Deserialize(Get(doc), now)>>, s, <<"find_one">>)

UpdateFields == {"title", "description", "due_date", "priority_level", "status"}

\* the updates dict TaskService.update_task builds
Updates(args) ==
    [k \in {f \in UpdateFields : args[f] # None} |->
        CASE k = "title" -> Get(args.title)
          [] k = "description" -> Get(args.description)
          [] k = "due_date" -> args.due_date
          [] k = "priority_level" -> EnumValue(Get(args.priority_level))
          [] k = "status" -> EnumValue(Get(args.status))]

\* update_task without "if not updates: return self.get_task(task_id)": the
\* update is issued with nothing to set
ServiceUpdateTaskAlways(s, id, args, now, fail) ==
    LET after == FindOneAndUpdate(s, id, Updates(args))
        doc == FindOne(after, id)
    IN  IF fail THEN EngineError(s, <<"find_one_and_update">>)
        ELSE IF doc = None
             THEN Run("ok", <<>>, after, <<"find_one_and_update">>)
        ELSE IF DeserializeOutcome(Get(doc)) # "ok"
             THEN Run(DeserializeOutcome(Get(doc)), <<>>, after,
                      <<"find_one_and_update">>)
        ELSE Run("ok", <<Deserialize(Get(doc), now)>>, after,
                 <<"find_one_and_update">>)

\* TaskService.update_task
ServiceUpdateTask(s, id, args, now, fail) ==
    LET after == FindOneAndUpdate(s, id, Updates(args))
        doc == FindOne(after, id)
    IN  IF DOMAIN Updates(args) = {} THEN ServiceGetTask(s, id, now, fail)
        ELSE IF fail THEN EngineError(s, <<"find_one_and_update">>)
        ELSE IF doc = None
             THEN Run("ok", <<>>, after, <<"find_one_and_update">>)
        ELSE IF DeserializeOutcome(Get(doc)) # "ok"
             THEN Run(DeserializeOutcome(Get(doc)), <<>>, after,
                      <<"find_one_and_update">>)
        ELSE Run("ok", <<Deserialize(Get(doc), now)>>, after,
                 <<"find_one_and_update">>)

\* TaskService.delete_task: "deleted" when deleted_count > 0, else "nothing"
ServiceDeleteTask(s, id, fail) ==
    IF fail THEN EngineError(s, <<"delete_one">>)
    ELSE Run(IF DeleteOne(s, id) # s THEN "deleted" ELSE "nothing", <<>>,
             DeleteOne(s, id), <<"delete_one">>)

\* TaskService.list_tasks, the cursor yielding its documents in this order;
\* the first document that does not deserialize raises
ServiceListTasks(s, cursor, now, fail) ==
    LET bad == {i \in 1..Len(cursor) : DeserializeOutcome(cursor[i]) # "ok"}
        first == CHOOSE i \in bad : \A j \in bad : i <= j
    IN  IF fail THEN EngineError(s, <<"find">>)
        ELSE IF bad # {}
             THEN Run(DeserializeOutcome(cursor[first]), <<>>, s, <<"find">>)
        ELSE Run("ok", [i \in 1..Len(cursor) |-> Deserialize(cursor[i], now)],
                 s, <<"find">>)

\* the query built from status and priority only: due_date is ignored
QueryWithoutDueDate(filters) ==
    [k \in {f \in {"status", "priority_level"} : filters[f] # None} |->
        CASE k = "status" -> EnumValue(Get(filters.status))
          [] k = "priority_level" -> EnumValue(Get(filters.priority_level))]

\* the query dict TaskService.list_tasks builds
Query(filters) ==
    [k \in {f \in {"status", "priority_level", "due_date"} : filters[f] # None} |->
        CASE k = "status" -> EnumValue(Get(filters.status))
          [] k = "priority_level" -> EnumValue(Get(filters.priority_level))
          [] k = "due_date" -> filters.due_date]

\* TaskService.create_task
ServiceCreateTask(s, task, fail) ==
    IF fail \/ task.id \in Ids(s)
    THEN EngineError(s, <<"insert_one">>)
    ELSE Run("ok", <<task>>, s \cup {Serialize(task)}, <<"insert_one">>)

\* create_tasks_bulk with insert_many(docs) ordered: the documents after the
\* first one whose insert fails are not inserted
ServiceCreateTasksBulkOrdered(s, tasks, failed) ==
    LET stop == IF failed = {} THEN Len(tasks) + 1
                ELSE CHOOSE i \in failed : \A j \in failed : i <= j
        docs == {Serialize(tasks[i]) : i \in 1..(stop - 1)}
    IN  IF tasks = <<>> THEN Run("ok", <<>>, s, <<>>)
        ELSE IF \E i \in 1..Len(tasks) : SerializeRejected(tasks[i])
             THEN Run("AttributeError", <<>>, s, <<>>)
        ELSE IF failed # {}
             THEN [EngineError(s \cup docs, <<"insert_many">>)
                      EXCEPT !.lost = failed]
        ELSE Run("ok", tasks, s \cup docs, <<"insert_many">>)

\* create_tasks_bulk without "if not task_list: return []": insert_many is
\* called with no document
ServiceCreateTasksBulkAlways(s, tasks, failed) ==
    LET docs == {Serialize(tasks[i]) : i \in (1..Len(tasks)) \ failed}
    IN  IF \E i \in 1..Len(tasks) : SerializeRejected(tasks[i])
        THEN Run("AttributeError", <<>>, s, <<>>)
        ELSE IF failed # {}
        THEN [EngineError(s \cup docs, <<"insert_many">>)
                 EXCEPT !.lost = failed]
        ELSE Run("ok", tasks, s \cup docs, <<"insert_many">>)

\* TaskService.create_tasks_bulk: insert_many(docs, ordered=False) inserts
\* every document whose own insert does not fail, and raises if one failed;
\* _serialize raises before it when a task holds no enum member
ServiceCreateTasksBulk(s, tasks, failed) ==
    LET docs == {Serialize(tasks[i]) : i \in (1..Len(tasks)) \ failed}
    IN  IF tasks = <<>> THEN Run("ok", <<>>, s, <<>>)
        ELSE IF \E i \in 1..Len(tasks) : SerializeRejected(tasks[i])
             THEN Run("AttributeError", <<>>, s, <<>>)
        ELSE IF failed # {}
             THEN [EngineError(s \cup docs, <<"insert_many">>)
                      EXCEPT !.lost = failed]
        ELSE Run("ok", tasks, s \cup docs, <<"insert_many">>)

---------------------------------------------------------------------------
(* The manager (manager.py).                                               *)

\* try: ... except PyMongoError as exc: raise TaskPersistenceError(...)
ExceptPyMongoError(run) ==
    IF run.outcome = "PyMongoError"
    THEN [run EXCEPT !.outcome = "TaskPersistenceError"]
    ELSE run

\* if task is None / updated is None: raise TaskNotFoundError(...)
RaiseIfNone(run) ==
    IF run.outcome = "ok" /\ run.result = <<>>
    THEN [run EXCEPT !.outcome = "TaskNotFoundError"]
    ELSE run

\* kwargs.get(key, default): a keyword argument, or its default
KwArg(kwargs, key, default) ==
    IF key \in DOMAIN kwargs THEN kwargs[key] ELSE default

\* TaskManager.create_task
ManagerCreateTask(s, kwargs, now, uuid, fail) ==
    IF TitleRejected(Some(kwargs.title))
    THEN Run("TaskValidationError", <<>>, s, <<>>)
    ELSE ExceptPyMongoError(
            ServiceCreateTask(s,
                NewTask(Some(kwargs.title),
                        Some(KwArg(kwargs, "description", <<>>)),
                        KwArg(kwargs, "due_date", None),
                        KwArg(kwargs, "priority_level", "MEDIUM"),
                        "PENDING", None, None, now, uuid),
                fail))

\* the title the loop of create_tasks_bulk computes for a payload
PayloadTitle(data) == Strip(OrEmpty(KwArg(data, "title", None)))

\* the Task the loop of create_tasks_bulk builds for a payload
PayloadTask(data, now, uuid) ==
    NewTask(Some(PayloadTitle(data)),
            Some(KwArg(data, "description", <<>>)),
            KwArg(data, "due_date", None),
            KwArg(data, "priority_level", "MEDIUM"),
            "PENDING", None, None, now, uuid)

\* create_tasks_bulk inserting each task as its payload is validated: the
\* tasks before the first rejected payload are stored when it raises
ManagerCreateTasksBulkEager(s, payloads, times, uuid, failed) ==
    LET blank == {i \in 1..Len(payloads) : PayloadTitle(payloads[i]) = <<>>}
        bad == blank \cup
               {i \in (1..Len(payloads)) \ blank :
                    SerializeRejected(
                        PayloadTask(payloads[i], times[i], uuid + i - 1))}
        stop == IF bad = {} THEN Len(payloads) + 1
                ELSE CHOOSE i \in bad : \A j \in bad : i <= j
        docs == {Serialize(PayloadTask(payloads[i], times[i], uuid + i - 1)) :
                    i \in 1..(stop - 1)}
    IN  IF bad # {}
        THEN Run(IF stop \in blank THEN "TaskValidationError"
                 ELSE "AttributeError",
                 <<>>, s \cup docs, [i \in 1..(stop - 1) |-> "insert_one"])
        ELSE Run("ok",
                 [i \in 1..Len(payloads) |->
                    PayloadTask(payloads[i], times[i], uuid + i - 1)],
                 s \cup docs, [i \in 1..Len(payloads) |-> "insert_one"])

\* create_tasks_bulk giving every task of the batch the same identifier
ManagerCreateTasksBulkOneId(s, payloads, times, uuid, failed) ==
    IF \E i \in 1..Len(payloads) : PayloadTitle(payloads[i]) = <<>>
    THEN Run("TaskValidationError", <<>>, s, <<>>)
    ELSE ExceptPyMongoError(
            ServiceCreateTasksBulk(s,
                [i \in 1..Len(payloads) |->
                    PayloadTask(payloads[i], times[i], uuid)],
                failed))

\* TaskManager.create_tasks_bulk; times[i] is utcnow() for payload i
ManagerCreateTasksBulk(s, payloads, times, uuid, failed) ==
    IF \E i \in 1..Len(payloads) : PayloadTitle(payloads[i]) = <<>>
    THEN Run("TaskValidationError", <<>>, s, <<>>)
    ELSE ExceptPyMongoError(
            ServiceCreateTasksBulk(s,
                [i \in 1..Len(payloads) |->
                    PayloadTask(payloads[i], times[i], uuid + i - 1)],
                failed))

\* TaskManager.get_task
ManagerGetTask(s, id, now, fail) ==
    RaiseIfNone(ExceptPyMongoError(ServiceGetTask(s, id, now, fail)))

\* TaskManager.list_tasks
ManagerListTasks(s, cursor, now, fail) ==
    ExceptPyMongoError(ServiceListTasks(s, cursor, now, fail))

\* update_task without the setters on the fetched task: nothing is validated
\* before the persisted update
UpdateFetchUnvalidated(s, id, args, now, fail) ==
    LET got == RaiseIfNone(ServiceGetTask(s, id, now, fail))
    IN  IF got.outcome # "ok" THEN got
        ELSE Run("continue", <<>>, s, got.calls)

\* TaskManager.update_task up to its persisted update: the fetch, outside
\* any try, and the setters on the fetched task.  "continue": go on to the
\* persisted update.
UpdateFetch(s, id, args, now, fail) ==
    LET got == RaiseIfNone(ServiceGetTask(s, id, now, fail))
    IN  IF got.outcome # "ok" THEN got
        ELSE IF args.title # None /\ TitleRejected(args.title)
             THEN Run("TaskValidationError", <<>>, s, got.calls)
        ELSE Run("continue", <<>>, s, got.calls)

\* TaskManager.update_task from its persisted update on
UpdatePersist(s, id, args, now, fail) ==
    RaiseIfNone(ExceptPyMongoError(ServiceUpdateTask(s, id, args, now, fail)))

\* TaskManager.update_task run with no other operation in between
ManagerUpdateTask(s, id, args, now, fail1, fail2) ==
    LET fetched == UpdateFetch(s, id, args, now, fail1)
        persisted == UpdatePersist(s, id, args, now, fail2)
    IN  IF fetched.outcome # "continue" THEN fetched
        ELSE [persisted EXCEPT !.calls = fetched.calls \o persisted.calls]

\* the keyword arguments of update_task, all omitted
NoArgs ==
    [title |-> None, description |-> None, due_date |-> None,
     priority_level |-> None, status |-> None]

\* complete_task without its "updated is None" check
ManagerCompleteTaskUnchecked(s, id, now, fail) ==
    ExceptPyMongoError(
        ServiceUpdateTask(s, id, [NoArgs EXCEPT !.status = Some("COMPLETED")],
                          now, fail))

\* TaskManager.complete_task
ManagerCompleteTask(s, id, now, fail) ==
    RaiseIfNone(ExceptPyMongoError(
        ServiceUpdateTask(s, id, [NoArgs EXCEPT !.status = Some("COMPLETED")],
                          now, fail)))

\* TaskManager.delete_task
ManagerDeleteTask(s, id, fail) ==
    LET run == ExceptPyMongoError(ServiceDeleteTask(s, id, fail))
    IN  IF run.outcome = "nothing"
        THEN [run EXCEPT !.outcome = "TaskNotFoundError"]
        ELSE IF run.outcome = "deleted" THEN [run EXCEPT !.outcome = "ok"]
        ELSE run

---------------------------------------------------------------------------
(* The client cache (db/base.py).  A call of get_client is given by its    *)
(* uri argument: None for get_client(), the uri for get_client(uri); this  *)
(* is also the key under which lru_cache keeps the result.  A client is    *)
(* its position in the sequence of the clients created.                    *)

\* _get_mongo_uri()
DefaultUri == "mongodb://localhost:27017"

\* before the first call: nothing cached, no hit, no miss, no client
NoClient == [cache |-> None, hits |-> 0, misses |-> 0, clients |-> <<>>]

\* get_client under @lru_cache(maxsize=1): a call with the cached key is a
\* hit; any other call is a miss, builds a MongoClient and replaces the
\* cached entry, the only one the cache holds
GetClientCall(d, uri) ==
    IF d.cache # None /\ Get(d.cache).key = uri
    THEN [d EXCEPT !.hits = @ + 1]
    ELSE [d EXCEPT !.misses = @ + 1,
                   !.clients = Append(@, [uri |-> IF uri = None
                                                  THEN DefaultUri
                                                  ELSE Get(uri),
                                          open |-> TRUE]),
                   !.cache = Some([key |-> uri,
                                   client |-> Len(d.clients) + 1])]

\* the client a call of get_client returns, d being the state it leaves
ClientReturned(d) == Get(d.cache).client

\* close_client
CloseClientCall(d) ==
    IF d.hits = 0 /\ d.misses = 0 THEN d
    ELSE LET got == GetClientCall(d, None)
         IN  [got EXCEPT !.clients[ClientReturned(got)].open = FALSE,
                         !.cache = None,
                         !.hits = 0,
                         !.misses = 0]

---------------------------------------------------------------------------
(* What callers pass.                                                      *)

Times == 1..MaxTime

Dates == 1..MaxDate

TaskIds == 1..MaxTasks

\* empty, whitespace-only, clean and padded text
Texts == {<<>>, <<" ">>, <<"a">>, <<" ", "b", " ">>}

DescriptionTexts == {<<>>, <<" ", "b", " ">>}

OptDates == {None} \cup {Some(d) : d \in Dates}

\* create_task: every title with the other arguments omitted, and a clean
\* title with every other argument supplied
CreateCalls ==
    {[title |-> t] : t \in Texts}
    \cup {[title |-> <<"a">>, description |-> <<" ", "b", " ">>,
           due_date |-> Some(MaxDate), priority_level |-> "HIGH"]}

\* update_task: no argument, each argument alone, and all of them together
UpdateCalls ==
    {NoArgs}
    \cup {[NoArgs EXCEPT !.title = Some(t)] : t \in Texts}
    \cup {[NoArgs EXCEPT !.description = Some(d)] : d \in DescriptionTexts}
    \cup {[NoArgs EXCEPT !.due_date = Some(d)] : d \in Dates}
    \cup {[NoArgs EXCEPT !.priority_level = Some(p)] : p \in PriorityLevel}
    \cup {[NoArgs EXCEPT !.status = Some(x)] : x \in Status}
    \cup {[title |-> Some(t), description |-> Some(<<" ", "b", " ">>),
           due_date |-> Some(MaxDate), priority_level |-> Some("HIGH"),
           status |-> Some("IN_PROGRESS")] : t \in Texts}

\* a payload of create_tasks_bulk, a dict of any content: no key at all, a
\* title alone, every key, or a priority_level that is a plain str and no
\* member of PriorityLevel
Payloads ==
    {<<>>}
    \cup {[title |-> Some(t)] : t \in Texts}
    \cup {[title |-> Some(<<"a">>), description |-> <<" ", "b", " ">>,
           due_date |-> Some(MaxDate), priority_level |-> "HIGH"]}
    \cup {[title |-> Some(<<"a">>), priority_level |-> "urgent"]}

\* a batch never needs more identifiers than uuid4() can hand out
Batches == UNION {[1..n -> Payloads] : n \in 0..MaxTasks}

\* list_tasks: every combination of supplied and omitted criteria
ListCalls ==
    [status : {None, Some("PENDING"), Some("COMPLETED")},
     priority_level : {None, Some("HIGH")},
     due_date : OptDates]

\* the values utcnow() can return where _deserialize reads it: it is used
\* only for a document without created_at
ReadTimes(docs) ==
    IF \A d \in docs : "created_at" \in DOMAIN d THEN {MaxTime} ELSE Times

---------------------------------------------------------------------------
(* The state machine.                                                      *)

\* the record of an operation that ended: before is the collection when it
\* began, mid the collection at its last store call
Ended(op, id, args, run, before, mid) ==
    [op |-> op, id |-> id, args |-> args, outcome |-> run.outcome,
     result |-> run.result, calls |-> run.calls, failed |-> run.failed,
     lost |-> run.lost, before |-> before, mid |-> mid]

\* no operation is under way: the last one has returned to its caller
NoOperation == Ended("none", 0, <<>>, Run("ok", <<>>, {}, <<>>), {}, {})

Init ==
    /\ store = {}
    /\ nextId = 1
    /\ ops = 0
    /\ upd = None
    /\ deleted = {}
    /\ born = {}
    /\ last = NoOperation
    /\ held = None
    /\ was = None
    /\ db = NoClient

CreateTask ==
    /\ upd = None
    /\ last = NoOperation
    /\ ops < MaxOps
    /\ nextId <= MaxTasks
    /\ \E kwargs \in CreateCalls, now \in Times, fail \in BOOLEAN :
        LET run == ManagerCreateTask(store, kwargs, now, nextId, fail)
        IN  /\ run.outcome = "TaskValidationError" => ~fail /\ now = MaxTime
            /\ store' = run.store
            /\ born' = born \cup {<<d._id, d.created_at>> : d \in run.store \ store}
            /\ nextId' = IF run.calls = <<>> THEN nextId ELSE nextId + 1
            /\ last' = Ended("create_task", 0, kwargs, run, store, store)
    /\ ops' = ops + 1
    /\ UNCHANGED <<upd, deleted, held, was, db>>

CreateTasksBulk ==
    /\ upd = None
    /\ last = NoOperation
    /\ ops < MaxOps
    /\ \E payloads \in Batches :
        /\ nextId + Len(payloads) - 1 <= MaxTasks
        /\ \E times \in [1..Len(payloads) -> Times],
              failed \in SUBSET (1..Len(payloads)) :
            LET run == ManagerCreateTasksBulk(store, payloads, times, nextId,
                                              failed)
            IN  /\ run.calls = <<>> =>
                    failed = {} /\ \A i \in DOMAIN times : times[i] = MaxTime
                /\ store' = run.store
                /\ born' = born \cup {<<d._id, d.created_at>> :
                                        d \in run.store \ store}
                /\ nextId' = IF run.calls = <<>> THEN nextId
                             ELSE nextId + Len(payloads)
                /\ last' = Ended("create_tasks_bulk", 0, payloads, run,
                                 store, store)
    /\ ops' = ops + 1
    /\ UNCHANGED <<upd, deleted, held, was, db>>

GetTask ==
    /\ upd = None
    /\ last = NoOperation
    /\ ops < MaxOps
    /\ \E id \in TaskIds, now \in ReadTimes(store), fail \in BOOLEAN :
        LET run == ManagerGetTask(store, id, now, fail)
        IN  last' = Ended("get_task", id, <<>>, run, store, store)
    /\ ops' = ops + 1
    /\ UNCHANGED <<store, nextId, upd, deleted, born, held, was, db>>

ListTasks ==
    /\ upd = None
    /\ last = NoOperation
    /\ ops < MaxOps
    /\ \E filters \in ListCalls, now \in ReadTimes(store), fail \in BOOLEAN :
        \E cursor \in Find(store, Query(filters)) :
            LET run == ManagerListTasks(store, cursor, now, fail)
            IN  last' = Ended("list_tasks", 0, filters, run, store, store)
    /\ ops' = ops + 1
    /\ UNCHANGED <<store, nextId, upd, deleted, born, held, was, db>>

\* update_task up to its persisted update
UpdateTaskFetch ==
    /\ upd = None
    /\ last = NoOperation
    /\ ops < MaxOps
    /\ \E id \in TaskIds, args \in UpdateCalls, now \in ReadTimes(store),
          fail \in BOOLEAN :
        LET run == UpdateFetch(store, id, args, now, fail)
        IN  /\ upd' = IF run.outcome = "continue"
                       THEN Some([id |-> id, args |-> args, before |-> store])
                       ELSE None
            /\ last' = Ended("update_task", id, args, run, store, store)
    /\ ops' = ops + 1
    /\ UNCHANGED <<store, nextId, deleted, born, held, was, db>>

\* update_task from its persisted update on
UpdateTaskPersist ==
    /\ upd # None
    /\ \E now \in ReadTimes(store), fail \in BOOLEAN :
        LET u == Get(upd)
            run == UpdatePersist(store, u.id, u.args, now, fail)
        IN  /\ store' = run.store
            /\ last' = Ended("update_task", u.id, u.args,
                             [run EXCEPT !.calls = <<"find_one">> \o @],
                             u.before, store)
    /\ upd' = None
    /\ UNCHANGED <<nextId, ops, deleted, born, held, was, db>>

CompleteTask ==
    /\ upd = None
    /\ last = NoOperation
    /\ ops < MaxOps
    /\ \E id \in TaskIds, now \in ReadTimes(store), fail \in BOOLEAN :
        LET run == ManagerCompleteTask(store, id, now, fail)
        IN  /\ store' = run.store
            /\ last' = Ended("complete_task", id, <<>>, run, store, store)
    /\ ops' = ops + 1
    /\ UNCHANGED <<nextId, upd, deleted, born, held, was, db>>

\* delete_task; another process may run it while an update_task is between
\* its fetch and its persisted update
DeleteTask ==
    /\ last = NoOperation \/ (upd # None /\ last.outcome = "continue")
    /\ ops < MaxOps
    /\ \E id \in TaskIds, fail \in BOOLEAN :
        LET run == ManagerDeleteTask(store, id, fail)
        IN  /\ store' = run.store
            /\ deleted' = IF run.outcome = "ok" THEN deleted \cup {id}
                          ELSE deleted
            /\ last' = Ended("delete_task", id, <<>>, run, store, store)
    /\ ops' = ops + 1
    /\ UNCHANGED <<nextId, upd, born, held, was, db>>

\* the operation that ended returns to its caller (a command handler of
\* cli/commands, which reports the outcome and exits)
Return ==
    /\ last # NoOperation
    /\ last.outcome # "continue"
    /\ last' = NoOperation
    /\ UNCHANGED <<store, nextId, ops, upd, deleted, born, held, was, db>>

Next ==
    \/ CreateTask
    \/ CreateTasksBulk
    \/ GetTask
    \/ ListTasks
    \/ UpdateTaskFetch
    \/ UpdateTaskPersist
    \/ CompleteTask
    \/ DeleteTask
    \/ Return

Spec == Init /\ [][Next]_vars

---------------------------------------------------------------------------
(* The Task entity on its own: a caller of models.py constructs a Task,    *)
(* assigns its properties and calls its methods; the persistence mapping   *)
(* is applied to the Task it holds.                                        *)

OptTexts == {None} \cup {Some(t) : t \in Texts}

\* Task(...): every title (absent included) with the other arguments
\* omitted, and a padded title with every other argument supplied
TaskCalls ==
    {[title |-> t] : t \in OptTexts}
    \cup {[title |-> Some(<<" ", "b", " ">>),
           description |-> <<" ", "b", " ">>, due_date |-> Some(MaxDate),
           priority_level |-> "HIGH", status |-> "COMPLETED",
           created_at |-> Some(c), id |-> Some(i)] :
            c \in Times, i \in TaskIds}

\* the record of an operation on the Task held
TaskEnded(op, args, outcome) ==
    Ended(op, 0, args, Run(outcome, <<>>, {}, <<>>), {}, {})

\* Task(**kwargs)
ConstructTask ==
    /\ \E kwargs \in TaskCalls, now \in Times :
        /\ "id" \in DOMAIN kwargs \/ nextId <= MaxTasks
        /\ ("created_at" \in DOMAIN kwargs \/ TitleRejected(kwargs.title))
            => now = MaxTime
        /\ IF TitleRejected(kwargs.title)
           THEN /\ held' = held
                /\ nextId' = nextId
                /\ last' = TaskEnded("Task", kwargs, "TaskValidationError")
           ELSE /\ held' = Some(NewTask(kwargs.title,
                            Some(KwArg(kwargs, "description", <<>>)),
                            KwArg(kwargs, "due_date", None),
                            KwArg(kwargs, "priority_level", "MEDIUM"),
                            KwArg(kwargs, "status", "PENDING"),
                            KwArg(kwargs, "created_at", None),
                            KwArg(kwargs, "id", None), now, nextId))
                /\ nextId' = IF "id" \in DOMAIN kwargs THEN nextId
                             ELSE nextId + 1
                /\ last' = TaskEnded("Task", kwargs, "ok")
    /\ was' = held
    /\ UNCHANGED <<store, ops, upd, deleted, born, db>>

\* the Task the loop of create_tasks_bulk builds for one payload
BuildPayloadTask ==
    /\ nextId <= MaxTasks
    /\ \E data \in Payloads, now \in Times :
        /\ PayloadTitle(data) = <<>> => now = MaxTime
        /\ IF PayloadTitle(data) = <<>>
           THEN /\ held' = held
                /\ nextId' = nextId
                /\ last' = TaskEnded("payload", data, "TaskValidationError")
           ELSE /\ held' = Some(PayloadTask(data, now, nextId))
                /\ nextId' = nextId + 1
                /\ last' = TaskEnded("payload", data, "ok")
    /\ was' = held
    /\ UNCHANGED <<store, ops, upd, deleted, born, db>>

\* task.title = value
AssignTitle ==
    /\ held # None
    /\ \E value \in OptTexts :
        IF TitleRejected(value)
        THEN /\ held' = held
             /\ last' = TaskEnded("title", value, "TaskValidationError")
        ELSE /\ held' = Some(SetTitle(Get(held), value))
             /\ last' = TaskEnded("title", value, "ok")
    /\ was' = held
    /\ UNCHANGED <<store, nextId, ops, upd, deleted, born, db>>

\* task.description = value
AssignDescription ==
    /\ held # None
    /\ \E value \in DescriptionTexts :
        /\ held' = Some(SetDescription(Get(held), Some(value)))
        /\ last' = TaskEnded("description", value, "ok")
    /\ was' = held
    /\ UNCHANGED <<store, nextId, ops, upd, deleted, born, db>>

\* task.due_date = value
AssignDueDate ==
    /\ held # None
    /\ \E value \in OptDates :
        /\ held' = Some(SetDueDate(Get(held), value))
        /\ last' = TaskEnded("due_date", value, "ok")
    /\ was' = held
    /\ UNCHANGED <<store, nextId, ops, upd, deleted, born, db>>

\* task.priority_level = value
AssignPriorityLevel ==
    /\ held # None
    /\ \E value \in PriorityLevel :
        /\ held' = Some(SetPriorityLevel(Get(held), value))
        /\ last' = TaskEnded("priority_level", value, "ok")
    /\ was' = held
    /\ UNCHANGED <<store, nextId, ops, upd, deleted, born, db>>

\* task.status = value
AssignStatus ==
    /\ held # None
    /\ \E value \in Status :
        /\ held' = Some(SetStatus(Get(held), value))
        /\ last' = TaskEnded("status", value, "ok")
    /\ was' = held
    /\ UNCHANGED <<store, nextId, ops, upd, deleted, born, db>>

\* task.mark_completed()
CallMarkCompleted ==
    /\ held # None
    /\ held' = Some(MarkCompleted(Get(held)))
    /\ last' = TaskEnded("mark_completed", <<>>, "ok")
    /\ was' = held
    /\ UNCHANGED <<store, nextId, ops, upd, deleted, born, db>>

\* task.start()
CallStart ==
    /\ held # None
    /\ IF StartRejected(Get(held))
       THEN /\ held' = held
            /\ last' = TaskEnded("start", <<>>, "TaskValidationError")
       ELSE /\ held' = Some(Start(Get(held)))
            /\ last' = TaskEnded("start", <<>>, "ok")
    /\ was' = held
    /\ UNCHANGED <<store, nextId, ops, upd, deleted, born, db>>

\* _deserialize(_serialize(task))
SerializeDeserialize ==
    /\ held # None
    /\ IF SerializeRejected(Get(held))
       THEN /\ held' = held
            /\ last' = TaskEnded("round_trip", <<>>, "AttributeError")
       ELSE IF DeserializeOutcome(Serialize(Get(held))) # "ok"
       THEN /\ held' = held
            /\ last' = TaskEnded("round_trip", <<>>,
                                 DeserializeOutcome(Serialize(Get(held))))
       ELSE /\ held' = Some(Deserialize(Serialize(Get(held)), MaxTime))
            /\ last' = TaskEnded("round_trip", <<>>, "ok")
    /\ was' = held
    /\ UNCHANGED <<store, nextId, ops, upd, deleted, born, db>>

NextTask ==
    \/ ConstructTask
    \/ BuildPayloadTask
    \/ AssignTitle
    \/ AssignDescription
    \/ AssignDueDate
    \/ AssignPriorityLevel
    \/ AssignStatus
    \/ CallMarkCompleted
    \/ CallStart
    \/ SerializeDeserialize

SpecTask == Init /\ [][NextTask]_vars

---------------------------------------------------------------------------
(* The manager over a collection that holds a record it did not write:     *)
(* _deserialize requires _id and title only and reads every other key     *)
(* with a default, and it constructs the Task through the title setter.    *)

\* a record whose title is whitespace only
BlankTitled ==
    [_id |-> 1, title |-> <<" ">>, description |-> <<>>, due_date |-> None,
     priority_level |-> "medium", status |-> "pending", created_at |-> 1]

\* a record that lacks every optional key
Partial == [_id |-> 1, title |-> <<"a">>]

StoredDocs == {BlankTitled, Partial}

InitStored ==
    /\ store \in {{d} : d \in StoredDocs}
    /\ nextId = 2
    /\ ops = 0
    /\ upd = None
    /\ deleted = {}
    /\ born = {}
    /\ last = NoOperation
    /\ held = None
    /\ was = None
    /\ db = NoClient

SpecStored == InitStored /\ [][Next]_vars

---------------------------------------------------------------------------
(* The client cache on its own: a process calls get_client, with or        *)
(* without a uri, and close_client.                                        *)

Uris == {"mongodb://other"}

\* get_client() and get_client(uri)
ClientCalls == {None} \cup {Some(u) : u \in Uris}

\* the record of a call of db/base.py: the client it returned (0 if none)
\* and the state of db/base.py before it
ClientEnded(op, uri, client, before) ==
    Ended(op, client, uri, Run("ok", <<>>, {}, <<>>), {before}, {})

GetClient ==
    /\ ops < MaxCalls
    /\ \E uri \in ClientCalls :
        /\ db' = GetClientCall(db, uri)
        /\ last' = ClientEnded("get_client", uri, ClientReturned(db'), db)
    /\ ops' = ops + 1
    /\ UNCHANGED <<store, nextId, upd, deleted, born, held, was>>

CloseClient ==
    /\ ops < MaxCalls
    /\ db' = CloseClientCall(db)
    /\ last' = ClientEnded("close_client", None, 0, db)
    /\ ops' = ops + 1
    /\ UNCHANGED <<store, nextId, upd, deleted, born, held, was>>

NextClient ==
    \/ GetClient
    \/ CloseClient

SpecClient == Init /\ [][NextClient]_vars

---------------------------------------------------------------------------
(* Properties.                                                             *)

\* the stored document with this id
Doc(s, id) == CHOOSE d \in s : d._id = id

\* the operation op has ended and has not yet returned to its caller
Ends(op) == last.op = op /\ last.outcome # "continue"

MutatingCalls ==
    {"insert_one", "insert_many", "find_one_and_update", "delete_one"}

\* text that is empty once stripped
Blank(text) == \A i \in DOMAIN text : text[i] = " "

\* C1: when create_task, create_tasks_bulk or update_task raises
\* ValidationError, it has issued no mutating store call and the stored
\* records are those of before; update_task with an empty or whitespace-only
\* title on an existing id raises ValidationError and changes nothing.
C1_ValidationBeforeMutation ==
    /\ (/\ last.op \in {"create_task", "create_tasks_bulk", "update_task"}
        /\ last.outcome = "TaskValidationError")
        => /\ \A i \in DOMAIN last.calls : last.calls[i] \notin MutatingCalls
           /\ store = last.before
    /\ (/\ Ends("update_task")
        /\ ~last.failed
        /\ last.id \in Ids(last.before)
        /\ last.args.title # None
        /\ Blank(Get(last.args.title)))
        => /\ last.outcome = "TaskValidationError"
           /\ store = last.before

\* an update_task that supplied a blank title for a stored task has ended
C1_Witness ==
    /\ Ends("update_task")
    /\ last.outcome = "TaskValidationError"
    /\ last.id \in Ids(store)
    /\ last.args.title = Some(<<" ">>)
    /\ last.args.status # None

\* C2: every operation ends by returning or by raising ValidationError,
\* NotFoundError or PersistenceError, and raises PersistenceError whenever
\* one of its store calls failed.
C2_OnlyThreeErrorKinds ==
    (last.op # "none" /\ last.outcome # "continue")
        => /\ last.outcome \in {"ok", "TaskValidationError",
                                "TaskNotFoundError", "TaskPersistenceError"}
           /\ last.failed => last.outcome = "TaskPersistenceError"

\* C3: create_tasks_bulk with a payload whose title is missing, empty or
\* whitespace-only, wherever it is in the batch, raises ValidationError,
\* makes no store call and stores nothing.
C3_BulkValidationAllOrNothing ==
    (/\ Ends("create_tasks_bulk")
     /\ \E i \in DOMAIN last.args :
            \/ "title" \notin DOMAIN last.args[i]
            \/ Blank(Get(last.args[i].title)))
        => /\ last.outcome = "TaskValidationError"
           /\ last.calls = <<>>
           /\ store = last.before

\* a batch whose second payload is rejected, after a first that is accepted
C3_Witness ==
    /\ Ends("create_tasks_bulk")
    /\ Len(last.args) = 2
    /\ "title" \in DOMAIN last.args[1]
    /\ ~Blank(Get(last.args[1].title))
    /\ "title" \notin DOMAIN last.args[2]
    /\ last.outcome = "TaskValidationError"

\* C4: an update_task whose fetch found the record, and whose persisted
\* update runs after a delete_task of the same id by another process, raises
\* NotFoundError, and the store holds no record with that id afterwards.
C4_UpdateAfterDeleteNotFound ==
    (/\ Ends("update_task")
     /\ last.id \in Ids(last.before)
     /\ last.id \notin Ids(last.mid))
        => /\ last.id \notin Ids(store)
           /\ ~last.failed => last.outcome = "TaskNotFoundError"

\* an update_task that supplied fields has ended after such a delete
C4_Witness ==
    /\ Ends("update_task")
    /\ last.id \in Ids(last.before)
    /\ last.id \notin Ids(last.mid)
    /\ last.args.title # None
    /\ last.calls = <<"find_one", "find_one_and_update">>
    /\ last.outcome = "TaskNotFoundError"

\* C5: the Task a successful update_task returns serializes to the record
\* now stored under its id.
C5_ReturnedTaskIsStoredRecord ==
    (Ends("update_task") /\ last.outcome = "ok")
        => /\ Len(last.result) = 1
           /\ last.id \in Ids(store)
           /\ Serialize(last.result[1]) = Doc(store, last.id)

\* the stored value update_task is asked to give field k
SuppliedValue(args, k) ==
    CASE k = "title" -> Get(args.title)
      [] k = "description" -> Get(args.description)
      [] k = "due_date" -> args.due_date
      [] k = "priority_level" ->
            IF Get(args.priority_level) = "LOW" THEN "low"
            ELSE IF Get(args.priority_level) = "MEDIUM" THEN "medium"
            ELSE "high"
      [] k = "status" ->
            IF Get(args.status) = "PENDING" THEN "pending"
            ELSE IF Get(args.status) = "IN_PROGRESS" THEN "in_progress"
            ELSE "completed"

\* C6: a successful update_task sets, in the stored record with its id, each
\* supplied field to the supplied value and leaves every other field, and
\* every other record, as it was; every stored record keeps the id and the
\* created_at it was inserted with.
C6_UpdateSetsOnlySuppliedFields ==
    /\ (Ends("update_task") /\ last.outcome = "ok")
        => /\ last.id \in Ids(last.mid)
           /\ last.id \in Ids(store)
           /\ DOMAIN Doc(store, last.id) = DOMAIN Doc(last.mid, last.id)
           /\ \A k \in DOMAIN Doc(store, last.id) :
                Doc(store, last.id)[k] =
                    IF k \in UpdateFields /\ last.args[k] # None
                    THEN SuppliedValue(last.args, k)
                    ELSE Doc(last.mid, last.id)[k]
           /\ store \ {Doc(store, last.id)}
                = last.mid \ {Doc(last.mid, last.id)}
    /\ \A d \in store :
            "created_at" \in DOMAIN d /\ <<d._id, d.created_at>> \in born

\* an update_task that supplied one field only has changed a stored record
C6_Witness ==
    /\ Ends("update_task")
    /\ last.outcome = "ok"
    /\ last.args.title = Some(<<" ", "b", " ">>)
    /\ last.args.status = None
    /\ Doc(store, last.id) # Doc(last.mid, last.id)
    /\ Cardinality(store) = 2

Satisfies(task, filters) ==
    /\ filters.status # None => task.status = Get(filters.status)
    /\ filters.priority_level # None
        => task.priority_level = Get(filters.priority_level)
    /\ filters.due_date # None => task.due_date = filters.due_date

C9_CompleteIsUpdateToCompleted ==
    (Ends("complete_task") /\ ~last.failed)
        => LET viaUpdate ==
                ManagerUpdateTask(last.before, last.id,
                    [NoArgs EXCEPT !.status = Some("COMPLETED")],
                    MaxTime, FALSE, FALSE)
           IN  /\ last.outcome = viaUpdate.outcome
               /\ last.result = viaUpdate.result
               /\ store = viaUpdate.store
               /\ IF last.id \in Ids(last.before)
                  THEN /\ last.outcome = "ok"
                       /\ last.id \in Ids(store)
                       /\ Doc(store, last.id)
                            = [Doc(last.before, last.id)
                                  EXCEPT !.status = "completed"]
                       /\ store \ {Doc(store, last.id)}
                            = last.before \ {Doc(last.before, last.id)}
                       /\ last.result
                            = <<Deserialize(Doc(store, last.id), MaxTime)>>
                  ELSE /\ last.outcome = "TaskNotFoundError"
                       /\ store = last.before

\* complete_task has completed a task that was pending
C9_Witness ==
    /\ Ends("complete_task")
    /\ last.outcome = "ok"
    /\ Doc(last.before, last.id).status = "pending"
    /\ Doc(store, last.id).status = "completed"

\* C10: delete_task on a stored id removes that record and no other, and no
\* record with a deleted id is stored again, so that get_task of it raises
\* NotFoundError from then on; delete_task on another id raises
\* NotFoundError and leaves the store unchanged.
C10_DeleteRemovesExactlyOne ==
    /\ (Ends("delete_task") /\ ~last.failed)
        => IF last.id \in Ids(last.before)
           THEN /\ last.outcome = "ok"
                /\ store = last.before \ {Doc(last.before, last.id)}
                /\ last.id \in deleted
           ELSE /\ last.outcome = "TaskNotFoundError"
                /\ store = last.before
    /\ deleted \cap Ids(store) = {}
    /\ (Ends("get_task") /\ ~last.failed /\ last.id \in deleted)
        => last.outcome = "TaskNotFoundError"

\* get_task of a deleted id, after another task was created
C10_Witness ==
    /\ Ends("get_task")
    /\ last.id \in deleted
    /\ store # {}
    /\ last.outcome = "TaskNotFoundError"

\* n spaces
Spaces(n) == [i \in 1..n |-> " "]

\* t is text without the whitespace at its two ends
IsTrimOf(t, text) ==
    /\ t # <<>> => t[1] # " " /\ t[Len(t)] # " "
    /\ \E i, j \in 0..Len(text) : text = Spaces(i) \o t \o Spaces(j)

\* the title given to the constructor or to the setter
TitleGiven == IF last.op = "Task" THEN last.args.title ELSE last.args

\* C11: constructing a Task with a title, or assigning one, succeeds exactly
\* when the trimmed title is non-empty, and then task.title is the trimmed
\* title; an empty, whitespace-only or absent title raises ValidationError,
\* and a failed assignment leaves the task as it was.
C11_TitleTrimmedOrRejected ==
    last.op \in {"Task", "title"}
        => IF TitleGiven = None \/ Blank(Get(TitleGiven))
           THEN /\ last.outcome = "TaskValidationError"
                /\ held = was
           ELSE /\ last.outcome = "ok"
                /\ held # None
                /\ IsTrimOf(Get(held).title, Get(TitleGiven))
                /\ last.op = "title"
                    => /\ was # None
                       /\ [Get(held) EXCEPT !.title = Get(was).title]
                            = Get(was)

\* a whitespace-only title was assigned to a task whose title came from a
\* padded one
C11_Witness ==
    /\ last.op = "title"
    /\ last.args = Some(<<" ">>)
    /\ last.outcome = "TaskValidationError"
    /\ held # None
    /\ Get(held).title = <<"b">>

\* C12: deserializing the record a valid Task serializes to gives a Task
\* equal to it in all seven fields, whatever the time of the read.
C12_SerializeDeserializeRoundTrip ==
    /\ (held # None /\ ~SerializeRejected(Get(held)))
        => \A now \in Times :
            /\ DeserializeOutcome(Serialize(Get(held))) = "ok"
            /\ Deserialize(Serialize(Get(held)), now) = Get(held)
    /\ (last.op = "round_trip" /\ was # None /\ ~SerializeRejected(Get(was)))
        => /\ last.outcome = "ok"
           /\ held = was

\* a completed task with a description, a due date and its own created_at
\* went through the mapping and back
C12_Witness ==
    /\ last.op = "round_trip"
    /\ last.outcome = "ok"
    /\ held # None
    /\ Get(held).description = <<"b">>
    /\ Get(held).due_date = Some(MaxDate)
    /\ Get(held).priority_level = "HIGH"
    /\ Get(held).status = "COMPLETED"
    /\ Get(held).created_at = 1

\* C13: get_task, list_tasks and update_task never raise ValidationError
\* because of what the store holds: update_task raises it for a title
\* argument that is empty or whitespace-only, and for nothing else.
C13_ReadsNeverRaiseValidation ==
    /\ last.op \in {"get_task", "list_tasks"}
        => last.outcome # "TaskValidationError"
    /\ (last.op = "update_task" /\ last.outcome = "TaskValidationError")
        => /\ last.args.title # None
           /\ Blank(Get(last.args.title))

\* the status a call on the Task held is to give it
StatusAsked ==
    CASE last.op = "status" -> last.args
      [] last.op = "mark_completed" -> "COMPLETED"
      [] last.op = "start" -> "IN_PROGRESS"

\* C14: a new task is pending; of status assignment, mark_completed(),
\* start(), update_task with a status and complete_task, only start() on a
\* completed task refuses, raising ValidationError and leaving the status
\* completed; every other call sets the status it is to set, from any status.
C14_OnlyStartOnCompletedRefuses ==
    /\ (/\ last.op \in {"Task", "payload"}
        /\ last.outcome = "ok"
        /\ "status" \notin DOMAIN last.args)
        => held # None /\ Get(held).status = "PENDING"
    /\ last.op \in {"status", "mark_completed", "start"}
        => /\ was # None
           /\ held # None
           /\ IF last.op = "start" /\ Get(was).status = "COMPLETED"
              THEN /\ last.outcome = "TaskValidationError"
                   /\ held = was
              ELSE /\ last.outcome = "ok"
                   /\ Get(held) = [Get(was) EXCEPT !.status = StatusAsked]
    /\ (held # None /\ ~SerializeRejected(Get(held)))
        => LET t == Get(held)
               s == {Serialize(t)}
               completed == ManagerCompleteTask(s, t.id, MaxTime, FALSE)
           IN  /\ \A x \in Status :
                    LET updated ==
                            ManagerUpdateTask(s, t.id,
                                [NoArgs EXCEPT !.status = Some(x)],
                                MaxTime, FALSE, FALSE)
                    IN  /\ updated.outcome = "ok"
                        /\ updated.result = <<[t EXCEPT !.status = x]>>
                        /\ updated.store
                            = {Serialize([t EXCEPT !.status = x])}
               /\ completed.outcome = "ok"
               /\ completed.result = <<[t EXCEPT !.status = "COMPLETED"]>>
               /\ completed.store
                    = {Serialize([t EXCEPT !.status = "COMPLETED"])}

\* start() was called on a completed task
C14_Witness ==
    /\ last.op = "start"
    /\ last.outcome = "TaskValidationError"
    /\ held # None
    /\ Get(held).status = "COMPLETED"

\* C15: a successful create_task returns a Task with a generated id, the
\* trimmed title, status pending, and the default of every omitted argument
\* (the trimmed or given value of every supplied one); one record is added
\* to the store, and get_task of the returned id yields the returned Task.
C15_CreateTaskStoresTheTaskReturned ==
    (Ends("create_task") /\ last.outcome = "ok")
        => /\ Len(last.result) = 1
           /\ LET t == last.result[1]
                  kw == last.args
              IN  /\ t.id \in TaskIds
                  /\ t.id \notin Ids(last.before)
                  /\ t.title # <<>>
                  /\ IsTrimOf(t.title, kw.title)
                  /\ t.status = "PENDING"
                  /\ IF "description" \in DOMAIN kw
                     THEN IsTrimOf(t.description, kw.description)
                     ELSE t.description = <<>>
                  /\ t.due_date = IF "due_date" \in DOMAIN kw
                                  THEN kw.due_date ELSE None
                  /\ t.priority_level = IF "priority_level" \in DOMAIN kw
                                        THEN kw.priority_level ELSE "MEDIUM"
                  /\ last.before \subseteq store
                  /\ Cardinality(store) = Cardinality(last.before) + 1
                  /\ \A now \in Times :
                        LET got == ManagerGetTask(store, t.id, now, FALSE)
                        IN  got.outcome = "ok" /\ got.result = <<t>>

\* create_task with a due date has added a second record to the store
C15_Witness ==
    /\ Ends("create_task")
    /\ last.outcome = "ok"
    /\ "due_date" \in DOMAIN last.args
    /\ last.args.due_date # None
    /\ Cardinality(store) = 2

\* C16: no two stored records have the same id: a create gives every record
\* it inserts an id that no stored record and no other record of the batch
\* has, and no other operation adds an id or changes one.
C16_StoredIdsUnique ==
    /\ \A d, e \in store : d._id = e._id => d = e
    /\ last.op \in {"create_task", "create_tasks_bulk"}
        => /\ last.before \subseteq store
           /\ \A d \in store \ last.before : d._id \notin Ids(last.before)
           /\ \A i, j \in DOMAIN last.result :
                i # j => last.result[i].id # last.result[j].id
           /\ \A i \in DOMAIN last.result :
                last.result[i].id \in Ids(store) \ Ids(last.before)
    /\ (Ends("update_task") \/ Ends("complete_task"))
        => Ids(store) = Ids(last.mid)
    /\ Ends("delete_task") => Ids(store) \subseteq Ids(last.before)

\* create_tasks_bulk has stored a batch of two
C16_Witness ==
    /\ Ends("create_tasks_bulk")
    /\ last.outcome = "ok"
    /\ Len(last.result) = 2
    /\ Cardinality(store) = 2

\* the id create_tasks_bulk gave the task of payload i
BatchId(i) == nextId - Len(last.args) + i - 1

\* C17: when insert_many fails for some records of the batch, the store
\* holds every record of the batch whose own insert did not fail, next to
\* the records of before, and create_tasks_bulk raises one PersistenceError
\* and returns no Task.
C17_BulkInsertBestEffort ==
    (Ends("create_tasks_bulk") /\ last.lost # {})
        => /\ last.outcome = "TaskPersistenceError"
           /\ last.result = <<>>
           /\ last.calls = <<"insert_many">>
           /\ last.before \subseteq store
           /\ Ids(store) \ Ids(last.before)
                = {BatchId(i) : i \in (DOMAIN last.args) \ last.lost}
           /\ \A i \in (DOMAIN last.args) \ last.lost :
                /\ BatchId(i) \in Ids(store)
                /\ IsTrimOf(Doc(store, BatchId(i)).title,
                            Get(last.args[i].title))
                /\ Doc(store, BatchId(i)).status = "pending"

\* the insert of the first record of a batch of two failed, and the second
\* record is stored
C17_Witness ==
    /\ Ends("create_tasks_bulk")
    /\ Len(last.args) = 2
    /\ last.lost = {1}
    /\ Cardinality(store) = 1
    /\ last.outcome = "TaskPersistenceError"

\* C18: update_task with no field supplied never issues find_one_and_update,
\* leaves the store unchanged and ends as get_task of the same id does: it
\* returns the stored task, or raises NotFoundError when there is none; the
\* store's update_task then is its get_task, which returns none for an id
\* that is not stored.
C18_UpdateWithoutFieldsIsGet ==
    /\ (Ends("update_task") /\ last.args = NoArgs)
        => /\ \A i \in DOMAIN last.calls : last.calls[i] = "find_one"
           /\ store = last.mid
           /\ ~last.failed
                => LET got == ManagerGetTask(store, last.id, MaxTime, FALSE)
                   IN  /\ last.outcome = got.outcome
                       /\ last.result = got.result
                       /\ IF last.id \in Ids(store)
                          THEN /\ last.outcome = "ok"
                               /\ last.result
                                    = <<Deserialize(Doc(store, last.id),
                                                    MaxTime)>>
                          ELSE last.outcome = "TaskNotFoundError"
    /\ \A id \in TaskIds :
        LET updated == ServiceUpdateTask(store, id, NoArgs, MaxTime, FALSE)
        IN  /\ updated = ServiceGetTask(store, id, MaxTime, FALSE)
            /\ updated.calls = <<"find_one">>
            /\ updated.store = store
            /\ id \notin Ids(store)
                => updated.outcome = "ok" /\ updated.result = <<>>

\* update_task with no field has returned the stored task
C18_Witness ==
    /\ Ends("update_task")
    /\ last.args = NoArgs
    /\ last.outcome = "ok"
    /\ last.calls = <<"find_one", "find_one">>
    /\ Len(last.result) = 1

\* C19: the priority_level of every Task is a member of PriorityLevel and its
\* status a member of Status.
C19_OnlyEnumeratedValues ==
    held # None
        => /\ Get(held).priority_level \in PriorityLevel
           /\ Get(held).status \in Status

\* C20: create_tasks_bulk with no payload returns no Task, raises nothing,
\* issues no store call and leaves the store unchanged.
C20_EmptyBulkTouchesNothing ==
    (Ends("create_tasks_bulk") /\ last.args = <<>>)
        => /\ last.outcome = "ok"
           /\ last.result = <<>>
           /\ last.calls = <<>>
           /\ ~last.failed
           /\ store = last.before

\* create_tasks_bulk with no payload has ended over a store that holds a task
C20_Witness ==
    /\ Ends("create_tasks_bulk")
    /\ last.args = <<>>
    /\ last.outcome = "ok"
    /\ store # {}

\* the state of db/base.py before the last call
DbBefore == CHOOSE d \in last.before : TRUE

\* C21: get_client returns the cached client when there is one; after
\* close_client the client that was cached is closed, no client is open and
\* nothing is cached; close_client creates no client when none was created
\* since the last close.
C21_CloseClosesTheCachedClient ==
    /\ (last.op = "get_client" /\ DbBefore.cache # None)
        => last.id = Get(DbBefore.cache).client
    /\ last.op = "close_client"
        => /\ db.cache = None
           /\ \A c \in DOMAIN db.clients : ~db.clients[c].open
           /\ DbBefore.cache # None
                => ~db.clients[Get(DbBefore.cache).client].open
           /\ DbBefore.cache = None => db.clients = DbBefore.clients

=============================================================================
